---- MODULE Spec2Model ----
(***************************************************************************)
(* State-machine model of src/recipe_app.py, a Streamlit script.           *)
(*                                                                         *)
(* Streamlit executes the whole script once per "run".  A run is started   *)
(* either by a click on a button that the previous run displayed, or by    *)
(* st.rerun().  During a run, st.button(key) returns True exactly for the  *)
(* clicked button, if the run reaches the point where that button is       *)
(* drawn; st.rerun() ends the run at once and starts a fresh one without   *)
(* any click.  st.session_state survives from run to run.                  *)
(*                                                                         *)
(* One step of the model is one run of the script.  A recipe summary is    *)
(* represented by its id (title and readyInMinutes are only displayed).    *)
(***************************************************************************)
EXTENDS Integers, Sequences, FiniteSets, TLC

VARIABLES
    session_state,      \* st.session_state: the eight keys of lines 66-81
    rerun,              \* TRUE when the last run ended in st.rerun()
    shown,              \* the buttons the last run displayed
    last_run,           \* what the last run did (observation of the run):
                        \* fields fired, search, detail, batch, text of its
                        \* outcome
    fetches,            \* external fetches made since the last click
    transitions,        \* navigation transitions made since the last click
    last_search_count   \* <<n>>: the latest search response since the reset
                        \* of the session held n recipes; << >>: none yet

vars == <<session_state, rerun, shown, last_run, fetches, transitions,
          last_search_count>>

-----------------------------------------------------------------------------
(* Program constants *)

RESULTS_PER_PAGE == 10

\* Python's None for the two recipe-id keys.  Recipe ids are positive, so
\* "if selected_recipe_id:" is the test selected_recipe_id # None.
None == 0

-----------------------------------------------------------------------------
(* Bounds of the model *)

\* Load More is clicked only while current_offset < MaxPages * RESULTS_PER_PAGE.
MaxPages == 2

\* A search response starts at the requested offset or MaxShift positions
\* before it, so that it repeats MaxShift ids that were already loaded.
MaxShift == 9

\* Size of a short (non-full, non-empty) search response.
ShortCount == 4

\* The similar-recipes response holds at most MaxSimilar recipes.
MaxSimilar == 2

\* The user clicks View Details only on the MaxPick lowest ids displayed.
MaxPick == 1

Queries == {"pasta", "soup"}

\* What the text input may hold when Search Recipes is clicked.
Texts == Queries \cup {""}

-----------------------------------------------------------------------------
(* Helpers: Python built-ins *)

Max(a, b) == IF a >= b THEN a ELSE b

Min(a, b) == IF a <= b THEN a ELSE b

\* seq[a:b] for 0 <= a.
Slice(seq, a, b) == SubSeq(seq, a + 1, Min(b, Len(seq)))

Ids(seq) == {seq[i] : i \in DOMAIN seq}

-----------------------------------------------------------------------------
(* Buttons.  A button is identified by its key; the key of a View Details  *)
(* button is f"view_{id}_{list_type}_{current_offset}".                    *)

Button(k) == [key |-> k, id |-> None, lt |-> "", off |-> 0]

ViewButton(id, lt, off) == [key |-> "view", id |-> id, lt |-> lt, off |-> off]

NoClick == Button("")

-----------------------------------------------------------------------------
(* The external API (Spoonacular): the responses a run may receive.        *)

\* n consecutive recipe ids after position start of the API-side ordering.
Window(start, n) == [i \in 1..n |-> start + i]

Counts == {0, ShortCount, RESULTS_PER_PAGE}

\* HTTP outcome of recipes/complexSearch at the given offset: an error, or
\* a result list of 0, ShortCount or RESULTS_PER_PAGE recipes that starts at
\* the offset or MaxShift positions before it.
SearchResponses(offset) ==
    {[ok |-> FALSE, results |-> <<>>]} \cup
    {[ok |-> TRUE, results |-> Window(offset - sh, n)] :
        sh \in {x \in {0, MaxShift} : x <= offset}, n \in Counts}

\* Stands for the response of a run that sends no search request.
NoResponse == [ok |-> FALSE, results |-> <<>>]

\* HTTP outcome of recipes/{id}/information.
DetailResponses == {[ok |-> TRUE], [ok |-> FALSE]}

\* HTTP outcome of recipes/{id}/similar.
SimilarResponses ==
    {[ok |-> FALSE, results |-> <<>>]} \cup
    {[ok |-> TRUE, results |-> Window(0, n)] : n \in 0..MaxSimilar}

\* search_recipes: the result list, or [] on a request exception.
search_recipes(resp) == IF resp.ok THEN resp.results ELSE <<>>

\* get_recipe_details: TRUE for a details dict, FALSE for None.
get_recipe_details(resp) == resp.ok

\* get_similar_recipes: the list, or [] on a request exception.
get_similar_recipes(resp) == IF resp.ok THEN resp.results ELSE <<>>

-----------------------------------------------------------------------------
(* The outcome of one run of the script.                                   *)
(*   ss      st.session_state at the end of the run                        *)
(*   rerun   the run ended in st.rerun()                                   *)
(*   shown   the buttons the run displayed (none when it ended in rerun)   *)
(*   fired   key of the button whose handler ran, "" if none               *)
(*   search  "none", "failed" or "ok": the search request of the run       *)
(*   count   number of recipes search_recipes returned to the run          *)
(*   detail  "none", "failed" or "ok": the detail request of the details   *)
(*           screen                                                        *)
(*   nfetch  number of HTTP requests the run made                          *)
(*   batch   the recipes the run listed (current_batch_to_show)             *)
(*   text    the text the run read from the text input                     *)

Outcome(s, rr, buttons, fired, search, count, detail, nfetch) ==
    [ss |-> s, rerun |-> rr, shown |-> buttons, fired |-> fired,
     search |-> search, count |-> count, detail |-> detail, nfetch |-> nfetch,
     batch |-> <<>>, text |-> ""]

-----------------------------------------------------------------------------
(* Screen "search_input", lines 87-105 *)

\* Lines 95-102 without line 96.
SearchRecipes_KeepQuery(s, text) ==
    [s EXCEPT !.list_type = "search",
              !.current_offset = 0,
              !.all_search_results = <<>>,
              !.last_api_fetch_was_full_page = FALSE,
              !.current_page = "search_results"]

\* Search Recipes with a non-empty text, lines 95-102.
SearchRecipes(s, text) ==
    [s EXCEPT !.search_query = text,
              !.list_type = "search",
              !.current_offset = 0,
              !.all_search_results = <<>>,
              !.last_api_fetch_was_full_page = FALSE,
              !.current_page = "search_results"]

SearchInputPage(s, click, text) ==
    [(IF click = Button("Search Recipes") /\ text # ""
      THEN Outcome(SearchRecipes(s, text), TRUE, {}, click.key,
                   "none", 0, "none", 0)
      ELSE Outcome(s, FALSE, {Button("Search Recipes")},
                   IF click = Button("Search Recipes") THEN click.key ELSE "",
                   "none", 0, "none", 0))
     EXCEPT !.text = IF click = Button("Search Recipes") THEN text ELSE ""]

-----------------------------------------------------------------------------
(* Screen "search_results", lines 108-217 *)

\* Line 114 replaced by "always".
NeedsFetch_Always(s) == TRUE

\* Line 114: the offset points past the recipes loaded so far.
NeedsFetch(s) == s.current_offset >= Len(s.all_search_results)

\* Line 118 with the test "the response is not empty".
IsFullPage_NonEmpty(new_recipes) == Len(new_recipes) > 0

\* Line 118.
IsFullPage(new_recipes) == Len(new_recipes) = RESULTS_PER_PAGE

\* Lines 122-123 without the membership test.
unique_new_recipes_Unfiltered(all_search_results, new_recipes) == new_recipes

\* Lines 122-123: the new recipes whose id is not loaded yet, in order.
unique_new_recipes(all_search_results, new_recipes) ==
    SelectSeq(new_recipes, LAMBDA nr : nr \notin Ids(all_search_results))

\* Lines 114-128: fetch the page at current_offset when it is not loaded.
EnsurePageLoaded(s, resp) ==
    IF NeedsFetch(s)
    THEN LET new_recipes == search_recipes(resp)
         IN  [s EXCEPT
                !.last_api_fetch_was_full_page = IsFullPage(new_recipes),
                !.all_search_results =
                    IF new_recipes # <<>>
                    THEN @ \o unique_new_recipes(@, new_recipes)
                    ELSE @]
    ELSE s

\* Lines 141-143 and 149: recipes_to_display[offset : offset + RESULTS_PER_PAGE].
page_slice(recipes_to_display, offset) ==
    Slice(recipes_to_display, offset, offset + RESULTS_PER_PAGE)

\* Lines 146-148 left out.
ClampOffset_None(recipes_to_display, offset) == offset

\* Lines 146-148: an empty batch at a positive offset moves the offset back.
ClampOffset(recipes_to_display, offset) ==
    IF page_slice(recipes_to_display, offset) = <<>> /\ offset > 0
    THEN Max(0, Len(recipes_to_display) - RESULTS_PER_PAGE)
    ELSE offset

\* View Details, lines 159-162.
ViewDetails(s, id) ==
    [s EXCEPT !.selected_recipe_id = id, !.current_page = "recipe_details"]

\* Line 172 going back to the first page.
PreviousRecipes_ToFirstPage(s) ==
    [s EXCEPT !.current_offset = 0]

\* Previous Recipes, lines 171-173.
PreviousRecipes(s) ==
    [s EXCEPT !.current_offset = Max(0, @ - RESULTS_PER_PAGE)]

\* Line 183 adding one recipe instead of one page.
LoadMoreRecipes_ByOne(s) ==
    [s EXCEPT !.current_offset = @ + 1]

\* Load More Recipes, lines 182-184.
LoadMoreRecipes(s) ==
    [s EXCEPT !.current_offset = @ + RESULTS_PER_PAGE]

\* Start New Search, lines 188-195 and 205-212.
StartNewSearch(s) ==
    [s EXCEPT !.current_page = "search_input",
              !.search_query = "",
              !.current_offset = 0,
              !.all_search_results = <<>>,
              !.last_viewed_recipe_id = None,
              !.last_api_fetch_was_full_page = FALSE]

\* Lines 197-200 and 214-217 without the reset of list_type.
BackToRecipeDetails_KeepList(s) ==
    [s EXCEPT !.current_page = "recipe_details"]

\* Back to Recipe Details, lines 197-200 and 214-217.
BackToRecipeDetails(s) ==
    [s EXCEPT !.current_page = "recipe_details", !.list_type = "search"]

\* Lines 152-159: one View Details button per recipe of the batch.
ViewButtons(s, batch) ==
    {ViewButton(batch[i], s.list_type, s.current_offset) : i \in DOMAIN batch}

\* Lines 166-184 with Load More Recipes offered by the length of the list
\* (a full page is loaded at the offset) instead of by the flag.
PagingButtons_ByLength(s) ==
    IF s.list_type = "search"
    THEN (IF s.current_offset > 0
          THEN {Button("previous_recipes")} ELSE {})
         \cup
         (IF Len(s.all_search_results) >= RESULTS_PER_PAGE + s.current_offset
          THEN {Button("load_more_recipes")} ELSE {})
    ELSE {}

\* Lines 166-184: Previous Recipes and Load More Recipes.
PagingButtons(s) ==
    IF s.list_type = "search"
    THEN (IF s.current_offset > 0
          THEN {Button("previous_recipes")} ELSE {})
         \cup
         (IF s.last_api_fetch_was_full_page
          THEN {Button("load_more_recipes")} ELSE {})
    ELSE {}

\* Lines 187-200: the bottom button of a non-empty list.
BottomButtons(s) ==
    IF s.list_type = "search"
    THEN {Button("start_new_search_from_results_bottom")}
    ELSE {Button("back_to_details_from_similar_bottom")}

\* Lines 204-217: the button of an empty list.
NoResultsButtons(s) ==
    IF s.list_type = "search"
    THEN {Button("start_new_search_no_results")}
    ELSE {Button("back_to_details_no_similar")}

\* The handler of each button of the results screen.
ResultsHandler(s, click) ==
    CASE click.key = "view" -> ViewDetails(s, click.id)
      [] click.key = "previous_recipes" -> PreviousRecipes(s)
      [] click.key = "load_more_recipes" -> LoadMoreRecipes(s)
      [] click.key \in {"start_new_search_from_results_bottom",
                        "start_new_search_no_results"} -> StartNewSearch(s)
      [] click.key \in {"back_to_details_from_similar_bottom",
                        "back_to_details_no_similar"} -> BackToRecipeDetails(s)

\* Lines 139-217: display recipes_to_display and serve the clicked button.
DisplayRecipes(s, recipes_to_display, click, search, count, nfetch) ==
    LET s1 == IF recipes_to_display # <<>>
              THEN [s EXCEPT !.current_offset =
                                ClampOffset(recipes_to_display, @)]
              ELSE s
        batch == page_slice(recipes_to_display, s1.current_offset)
        buttons == IF recipes_to_display # <<>>
                   THEN ViewButtons(s1, batch) \cup PagingButtons(s1)
                        \cup BottomButtons(s1)
                   ELSE NoResultsButtons(s1)
    IN  [(IF click \in buttons
          THEN Outcome(ResultsHandler(s1, click), TRUE, {}, click.key,
                       search, count, "none", nfetch)
          ELSE Outcome(s1, FALSE, buttons, "", search, count, "none", nfetch))
         EXCEPT !.batch = batch]

\* Lines 109-130 followed by lines 139-217: the primary search list.
PrimaryResultsPage(s, click, resp) ==
    LET s1 == EnsurePageLoaded(s, resp)
        search == IF ~NeedsFetch(s) THEN "none"
                  ELSE IF resp.ok THEN "ok" ELSE "failed"
        count == IF NeedsFetch(s) THEN Len(search_recipes(resp)) ELSE 0
    IN  DisplayRecipes(s1, s1.all_search_results, click, search, count,
                       IF NeedsFetch(s) THEN 1 ELSE 0)

\* Lines 132-136 followed by lines 139-217: the similar list.  The details
\* of last_viewed_recipe_id are requested for the title only.
SimilarResultsPage(s, click, dresp, sresp) ==
    DisplayRecipes(s, get_similar_recipes(sresp), click, "none", 0, 2)

-----------------------------------------------------------------------------
(* Screen "recipe_details", lines 220-280 *)

\* Lines 266-267 with the offset also set back to the first page.
BackToSearchResults_ToFirstPage(s) ==
    [s EXCEPT !.current_page = "search_results", !.selected_recipe_id = None,
              !.current_offset = 0]

\* Back to Search Results, lines 265-268.
BackToSearchResults(s) ==
    [s EXCEPT !.current_page = "search_results", !.selected_recipe_id = None]

\* Find Similar Recipes, lines 270-273.
FindSimilarRecipes(s) ==
    [s EXCEPT !.current_page = "search_results", !.list_type = "similar"]

\* Lines 276 and 279 left out: the redirect stays on the details screen.
RedirectToResults_Stay(s) == s

\* Lines 274-277 and 278-280: leave the details screen.
RedirectToResults(s) ==
    [s EXCEPT !.current_page = "search_results"]

\* Line 227 left out.
MarkViewed_Skipped(s) == s

\* Line 227: a successful detail request records the recipe as last viewed.
MarkViewed(s) ==
    [s EXCEPT !.last_viewed_recipe_id = s.selected_recipe_id]

DetailsHandler(s, click) ==
    CASE click.key = "back_from_details" -> BackToSearchResults(s)
      [] click.key = "find_similar_from_details" -> FindSimilarRecipes(s)

RecipeDetailsPage(s, click, resp) ==
    IF s.selected_recipe_id # None
    THEN IF get_recipe_details(resp)
         THEN LET s1 == MarkViewed(s)
                  buttons == {Button("back_from_details"),
                              Button("find_similar_from_details")}
              IN  IF click \in buttons
                  THEN Outcome(DetailsHandler(s1, click), TRUE, {},
                               click.key, "none", 0, "ok", 1)
                  ELSE Outcome(s1, FALSE, buttons, "", "none", 0, "ok", 1)
         ELSE Outcome(RedirectToResults(s), TRUE, {}, "",
                      "none", 0, "failed", 1)
    ELSE Outcome(RedirectToResults(s), TRUE, {}, "", "none", 0, "none", 0)

-----------------------------------------------------------------------------
(* The state machine *)

\* Lines 66-81; the first run of the script is due.
Init ==
    /\ session_state = [current_page |-> "search_input",
                        search_query |-> "",
                        selected_recipe_id |-> None,
                        list_type |-> "search",
                        last_viewed_recipe_id |-> None,
                        current_offset |-> 0,
                        all_search_results |-> <<>>,
                        last_api_fetch_was_full_page |-> FALSE]
    /\ rerun = TRUE
    /\ shown = {}
    /\ last_run = [fired |-> "", search |-> "none", detail |-> "none",
                   batch |-> <<>>, text |-> ""]
    /\ fetches = 0
    /\ transitions = 0
    /\ last_search_count = <<>>

\* The screen of the navigation machine: the page and the list kind.
Screen(s) == <<s.current_page, s.list_type>>

ResetKeys == {"Search Recipes", "start_new_search_from_results_bottom",
              "start_new_search_no_results"}

\* The run with outcome r, started by click (NoClick: started by st.rerun).
Apply(r, click) ==
    /\ session_state' = r.ss
    /\ rerun' = r.rerun
    /\ shown' = r.shown
    /\ last_run' = [fired |-> r.fired, search |-> r.search,
                    detail |-> r.detail, batch |-> r.batch, text |-> r.text]
    /\ fetches' = (IF click = NoClick THEN fetches ELSE 0) + r.nfetch
    /\ transitions' = (IF click = NoClick THEN transitions ELSE 0)
                      + (IF Screen(r.ss) # Screen(session_state)
                         THEN 1 ELSE 0)
    /\ last_search_count' =
          IF r.fired \in ResetKeys /\ r.rerun THEN <<>>
          ELSE IF r.search # "none" THEN <<r.count>>
          ELSE last_search_count

SearchInput(click) ==
    /\ session_state.current_page = "search_input"
    /\ \E text \in Texts :
          Apply(SearchInputPage(session_state, click, text), click)

PrimaryResults(click) ==
    /\ session_state.current_page = "search_results"
    /\ session_state.list_type = "search"
    /\ \E resp \in (IF NeedsFetch(session_state)
                     THEN SearchResponses(session_state.current_offset)
                     ELSE {NoResponse}) :
          Apply(PrimaryResultsPage(session_state, click, resp), click)

SimilarResults(click) ==
    /\ session_state.current_page = "search_results"
    /\ session_state.list_type = "similar"
    /\ \E dresp \in DetailResponses, sresp \in SimilarResponses :
          Apply(SimilarResultsPage(session_state, click, dresp, sresp), click)

RecipeDetails(click) ==
    /\ session_state.current_page = "recipe_details"
    /\ \E resp \in DetailResponses :
          Apply(RecipeDetailsPage(session_state, click, resp), click)

\* One run of the script, lines 87, 108 and 220.
Script(click) ==
    \/ SearchInput(click)
    \/ PrimaryResults(click)
    \/ SimilarResults(click)
    \/ RecipeDetails(click)

\* The buttons the modelled user clicks: every button on screen, except that
\* View Details is clicked on the MaxPick lowest ids only and Load More only
\* below MaxPages pages.
Pickable ==
    {b \in shown :
        /\ b.key = "view" =>
              Cardinality({c \in shown : c.key = "view" /\ c.id < b.id})
                  < MaxPick
        /\ b.key = "load_more_recipes" =>
              session_state.current_offset < MaxPages * RESULTS_PER_PAGE}

\* A run started by st.rerun() (or the first run of the session).
Render == rerun /\ Script(NoClick)

\* A run started by a click on a displayed button.
Click(b) == ~rerun /\ Script(b)

Next ==
    \/ Render
    \/ \E b \in Pickable : Click(b)

Spec == Init /\ [][Next]_vars

\* st.rerun() starts the next run by itself: a run that is due takes place.
FairSpec == Spec /\ WF_vars(Render)

-----------------------------------------------------------------------------
(* The earlier revision of the script, src/unnamed/part_000.  Its session  *)
(* has no last_api_fetch_was_full_page key, its results screen lists every *)
(* loaded recipe, and the key of a View Details button is                  *)
(* f"view_{id}_{list_type}".  Its details screen (lines 196-257) is the    *)
(* code of lines 220-280 of the final revision.                            *)

\* Search Recipes with a non-empty text, lines 94-100.
Earlier_SearchRecipes(s, text) ==
    [s EXCEPT !.search_query = text,
              !.list_type = "search",
              !.current_offset = 0,
              !.all_search_results = <<>>,
              !.current_page = "search_results"]

\* Screen "search_input", lines 86-103.
Earlier_SearchInputPage(s, click, text) ==
    [(IF click = Button("Search Recipes") /\ text # ""
      THEN Outcome(Earlier_SearchRecipes(s, text), TRUE, {}, click.key,
                   "none", 0, "none", 0)
      ELSE Outcome(s, FALSE, {Button("Search Recipes")},
                   IF click = Button("Search Recipes") THEN click.key ELSE "",
                   "none", 0, "none", 0))
     EXCEPT !.text = IF click = Button("Search Recipes") THEN text ELSE ""]

\* Line 110: nothing is loaded, or the offset exceeds the number loaded.
Earlier_NeedsFetch(s) ==
    \/ s.all_search_results = <<>>
    \/ s.current_offset > Len(s.all_search_results)

\* Line 115: no recipe of the response has the id of a loaded recipe.
Earlier_NoneLoaded(all_search_results, new_recipes) ==
    Ids(all_search_results) \cap Ids(new_recipes) = {}

\* Lines 110-118: fetch, and append the whole response or nothing.
Earlier_EnsurePageLoaded(s, resp) ==
    IF Earlier_NeedsFetch(s)
    THEN LET new_recipes == search_recipes(resp)
         IN  IF new_recipes # <<>>
                /\ Earlier_NoneLoaded(s.all_search_results, new_recipes)
             THEN [s EXCEPT !.all_search_results = @ \o new_recipes]
             ELSE s
    ELSE s

\* Previous Recipes, lines 166-171: the offset goes back one page and the
\* recipes after the page at the new offset are dropped.
Earlier_PreviousRecipes(s) ==
    LET offset == Max(0, s.current_offset - RESULTS_PER_PAGE)
    IN  [s EXCEPT !.current_offset = offset,
                  !.all_search_results =
                      IF Len(@) > offset + RESULTS_PER_PAGE
                      THEN Slice(@, 0, offset + RESULTS_PER_PAGE)
                      ELSE @]

\* Load More Recipes, lines 175-177.
Earlier_LoadMoreRecipes(s) ==
    [s EXCEPT !.current_offset = @ + RESULTS_PER_PAGE]

\* View Details, lines 138-141.
Earlier_ViewDetails(s, id) ==
    [s EXCEPT !.selected_recipe_id = id, !.current_page = "recipe_details"]

\* Start New Search, lines 149-155 and 182-188.
Earlier_StartNewSearch(s) ==
    [s EXCEPT !.current_page = "search_input",
              !.search_query = "",
              !.current_offset = 0,
              !.all_search_results = <<>>,
              !.last_viewed_recipe_id = None]

\* Back to Recipe Details, lines 157-160 and 190-193.
Earlier_BackToRecipeDetails(s) ==
    [s EXCEPT !.current_page = "recipe_details", !.list_type = "search"]

\* Lines 131-138: one View Details button per recipe of the list.
Earlier_ViewButtons(s, recipes_to_display) ==
    {ViewButton(recipes_to_display[i], s.list_type, 0) :
        i \in DOMAIN recipes_to_display}

\* Lines 147-160: the navigation button of a non-empty list.
Earlier_NavButtons(s) ==
    IF s.list_type = "search"
    THEN {Button("start_new_search_from_results")}
    ELSE {Button("back_to_details_from_similar")}

\* Lines 163-177: Previous Recipes and Load More Recipes.
Earlier_PagingButtons(s, recipes_to_display) ==
    IF s.list_type = "search"
    THEN (IF s.current_offset > 0
          THEN {Button("previous_recipes")} ELSE {})
         \cup
         (IF Len(recipes_to_display) >= RESULTS_PER_PAGE + s.current_offset
          THEN {Button("load_more_recipes")} ELSE {})
    ELSE {}

\* Lines 181-193: the button of an empty list.
Earlier_NoResultsButtons(s) ==
    IF s.list_type = "search"
    THEN {Button("start_new_search_no_results")}
    ELSE {Button("back_to_details_no_similar")}

\* The handler of each button of the results screen.
Earlier_ResultsHandler(s, click) ==
    CASE click.key = "view" -> Earlier_ViewDetails(s, click.id)
      [] click.key = "previous_recipes" -> Earlier_PreviousRecipes(s)
      [] click.key = "load_more_recipes" -> Earlier_LoadMoreRecipes(s)
      [] click.key \in {"start_new_search_from_results",
                        "start_new_search_no_results"}
            -> Earlier_StartNewSearch(s)
      [] click.key \in {"back_to_details_from_similar",
                        "back_to_details_no_similar"}
            -> Earlier_BackToRecipeDetails(s)

\* Lines 130-193: display recipes_to_display and serve the clicked button.
Earlier_DisplayRecipes(s, recipes_to_display, click, search, count, nfetch) ==
    LET buttons == IF recipes_to_display # <<>>
                   THEN Earlier_ViewButtons(s, recipes_to_display)
                        \cup Earlier_NavButtons(s)
                        \cup Earlier_PagingButtons(s, recipes_to_display)
                   ELSE Earlier_NoResultsButtons(s)
    IN  [(IF click \in buttons
          THEN Outcome(Earlier_ResultsHandler(s, click), TRUE, {}, click.key,
                       search, count, "none", nfetch)
          ELSE Outcome(s, FALSE, buttons, "", search, count, "none", nfetch))
         EXCEPT !.batch = recipes_to_display]

\* Lines 107-120 followed by lines 130-193: the primary search list.
Earlier_PrimaryResultsPage(s, click, resp) ==
    LET s1 == Earlier_EnsurePageLoaded(s, resp)
        search == IF ~Earlier_NeedsFetch(s) THEN "none"
                  ELSE IF resp.ok THEN "ok" ELSE "failed"
        count == IF Earlier_NeedsFetch(s) THEN Len(search_recipes(resp))
                 ELSE 0
    IN  Earlier_DisplayRecipes(s1, s1.all_search_results, click, search,
                               count, IF Earlier_NeedsFetch(s) THEN 1 ELSE 0)

\* Lines 122-126 followed by lines 130-193: the similar list.
Earlier_SimilarResultsPage(s, click, dresp, sresp) ==
    Earlier_DisplayRecipes(s, get_similar_recipes(sresp), click, "none", 0, 2)

\* Lines 67-80; the first run of the script is due.
Earlier_Init ==
    /\ session_state = [current_page |-> "search_input",
                        search_query |-> "",
                        selected_recipe_id |-> None,
                        list_type |-> "search",
                        last_viewed_recipe_id |-> None,
                        current_offset |-> 0,
                        all_search_results |-> <<>>]
    /\ rerun = TRUE
    /\ shown = {}
    /\ last_run = [fired |-> "", search |-> "none", detail |-> "none",
                   batch |-> <<>>, text |-> ""]
    /\ fetches = 0
    /\ transitions = 0
    /\ last_search_count = <<>>

Earlier_ResetKeys == {"Search Recipes", "start_new_search_from_results",
                      "start_new_search_no_results"}

\* The run with outcome r, started by click (NoClick: started by st.rerun).
Earlier_Apply(r, click) ==
    /\ session_state' = r.ss
    /\ rerun' = r.rerun
    /\ shown' = r.shown
    /\ last_run' = [fired |-> r.fired, search |-> r.search,
                    detail |-> r.detail, batch |-> r.batch, text |-> r.text]
    /\ fetches' = (IF click = NoClick THEN fetches ELSE 0) + r.nfetch
    /\ transitions' = (IF click = NoClick THEN transitions ELSE 0)
                      + (IF Screen(r.ss) # Screen(session_state)
                         THEN 1 ELSE 0)
    /\ last_search_count' =
          IF r.fired \in Earlier_ResetKeys /\ r.rerun THEN <<>>
          ELSE IF r.search # "none" THEN <<r.count>>
          ELSE last_search_count

Earlier_SearchInput(click) ==
    /\ session_state.current_page = "search_input"
    /\ \E text \in Texts :
          Earlier_Apply(Earlier_SearchInputPage(session_state, click, text),
                        click)

Earlier_PrimaryResults(click) ==
    /\ session_state.current_page = "search_results"
    /\ session_state.list_type = "search"
    /\ \E resp \in (IF Earlier_NeedsFetch(session_state)
                     THEN SearchResponses(session_state.current_offset)
                     ELSE {NoResponse}) :
          Earlier_Apply(Earlier_PrimaryResultsPage(session_state, click, resp),
                        click)

Earlier_SimilarResults(click) ==
    /\ session_state.current_page = "search_results"
    /\ session_state.list_type = "similar"
    /\ \E dresp \in DetailResponses, sresp \in SimilarResponses :
          Earlier_Apply(Earlier_SimilarResultsPage(session_state, click,
                                                   dresp, sresp), click)

\* Lines 196-257, the code of lines 220-280 of the final revision.
Earlier_RecipeDetails(click) ==
    /\ session_state.current_page = "recipe_details"
    /\ \E resp \in DetailResponses :
          Earlier_Apply(RecipeDetailsPage(session_state, click, resp), click)

\* One run of the script, lines 86, 106 and 196.
Earlier_Script(click) ==
    \/ Earlier_SearchInput(click)
    \/ Earlier_PrimaryResults(click)
    \/ Earlier_SimilarResults(click)
    \/ Earlier_RecipeDetails(click)

Earlier_Render == rerun /\ Earlier_Script(NoClick)

Earlier_Click(b) == ~rerun /\ Earlier_Script(b)

Earlier_Next ==
    \/ Earlier_Render
    \/ \E b \in Pickable : Earlier_Click(b)

EarlierSpec == Earlier_Init /\ [][Earlier_Next]_vars

-----------------------------------------------------------------------------
(* Properties *)

Results == session_state.all_search_results

Offset == session_state.current_offset

\* The paginator: results, offset and last_page_was_full.
Paginator ==
    <<session_state.all_search_results, session_state.current_offset,
      session_state.last_api_fetch_was_full_page>>

StartNewSearchKeys == {"start_new_search_from_results_bottom",
                       "start_new_search_no_results"}

\* C1: in every reachable state the search offset is a non-negative multiple
\* of the page size.
C1_OffsetIsMultipleOfPageSize ==
    Offset >= 0 /\ Offset % RESULTS_PER_PAGE = 0

\* C2: in every reachable state no two entries of all_search_results have
\* the same id, also when search responses repeat ids already loaded.
C2_NoDuplicateIds ==
    \A i, j \in DOMAIN Results : i # j => Results[i] # Results[j]

\* C2 witness: a full response that repeated loaded ids has been appended:
\* the list grew past one page by fewer recipes than the response held.
C2_Witness_OverlapAppended ==
    /\ last_run.search = "ok"
    /\ last_search_count = <<RESULTS_PER_PAGE>>
    /\ Len(Results) > RESULTS_PER_PAGE
    /\ Len(Results) < 2 * RESULTS_PER_PAGE

\* C3: a run of the primary results screen whose search request failed, and
\* that served no button, leaves results and offset as they were.
C3_FailedFetchKeepsResultsAndOffset ==
    [][(last_run'.search = "failed" /\ last_run'.fired = "")
          => /\ session_state'.all_search_results = Results
             /\ session_state'.current_offset = Offset]_vars

\* C4: in every reachable state selected_recipe_id is set only on the
\* details screen.
C4_SelectedOnlyOnDetails ==
    session_state.selected_recipe_id # None
        => session_state.current_page = "recipe_details"

\* C5: neither the run that serves Find Similar Recipes nor the run that
\* then displays the similar list changes the paginator.
C5_FindSimilarKeepsPaginator ==
    [][(last_run'.fired = "find_similar_from_details"
        \/ last_run.fired = "find_similar_from_details")
          => Paginator' = Paginator]_vars

\* C6: a run whose detail request failed stays on the details screen and no
\* longer selects the recipe whose request failed.
C6_FailedDetailStaysAndDeselects ==
    [][last_run'.detail = "failed"
          => /\ session_state'.current_page = "recipe_details"
             /\ session_state'.selected_recipe_id
                    # session_state.selected_recipe_id]_vars

\* C7: since the last click there has been at most one navigation
\* transition and at most one external fetch.
C7_OneTransitionOneFetchPerClick ==
    fetches <= 1 /\ transitions <= 1

\* C8: once Back to Search Results has been served, the screen is the
\* results screen with the primary list and nothing is selected.
C8_BackLeadsToPrimaryResults ==
    last_run.fired = "back_from_details"
        => /\ session_state.current_page = "search_results"
           /\ session_state.list_type = "search"
           /\ session_state.selected_recipe_id = None

\* C9: once Start New Search has been served, the screen is the input
\* screen, query, selected id and last viewed id are cleared and the
\* paginator is reset.
C9_NewSearchClearsSession ==
    last_run.fired \in StartNewSearchKeys
        => /\ session_state.current_page = "search_input"
           /\ session_state.search_query = ""
           /\ session_state.selected_recipe_id = None
           /\ session_state.last_viewed_recipe_id = None
           /\ Paginator = << <<>>, 0, FALSE >>

\* C10: last_api_fetch_was_full_page is true, and Load More Recipes is on
\* screen, only if a search response has arrived since the last reset and
\* the latest one held exactly RESULTS_PER_PAGE recipes.
C10_FullFlagOnlyAfterFullPage ==
    /\ session_state.last_api_fetch_was_full_page
          => last_search_count = <<RESULTS_PER_PAGE>>
    /\ Button("load_more_recipes") \in shown
          => last_search_count = <<RESULTS_PER_PAGE>>

\* C10 witness: a full page at offset 0, then a short page at offset
\* RESULTS_PER_PAGE: the flag is false, Load More Recipes is not offered and
\* the list holds RESULTS_PER_PAGE + ShortCount recipes.
C10_Witness_ShortSecondPage ==
    /\ ~rerun
    /\ session_state.current_page = "search_results"
    /\ Offset = RESULTS_PER_PAGE
    /\ last_search_count = <<ShortCount>>
    /\ Len(Results) = RESULTS_PER_PAGE + ShortCount
    /\ ~session_state.last_api_fetch_was_full_page
    /\ Button("load_more_recipes") \notin shown
    /\ Button("previous_recipes") \in shown

\* C11: the similar list is on screen, and Find Similar Recipes is offered,
\* only with last_viewed_recipe_id set: the similar recipes are never
\* requested for a null recipe id.
C11_SimilarOnlyAfterDetailView ==
    /\ session_state.list_type = "similar"
          => session_state.last_viewed_recipe_id # None
    /\ Button("find_similar_from_details") \in shown
          => session_state.last_viewed_recipe_id # None

\* C11 witness: Find Similar Recipes has been served and the similar list
\* is displayed.
C11_Witness_SimilarListShown ==
    /\ ~rerun
    /\ session_state.current_page = "search_results"
    /\ session_state.list_type = "similar"
    /\ session_state.last_viewed_recipe_id # None

\* C12 as claimed: once a search response of the current query held zero
\* recipes, Load More Recipes is not offered in any later state of the
\* query: no step from a state whose latest response is the empty one leads,
\* without a reset, to a state that offers it.
C12_NoAdvanceAfterEmptyFetch ==
    [][(last_search_count = <<0>> /\ last_search_count' # <<>>)
          => Button("load_more_recipes") \notin shown']_vars

\* C12 as amended: while the latest search response of the query is the
\* empty one, the flag is false and Load More Recipes is not offered; and
\* once an empty response arrived with recipes already loaded, no later run
\* of the query sends a search request, so that this lasts until the reset.
C12_NoAdvanceWhileLatestFetchEmpty ==
    /\ [](last_search_count = <<0>>
            => /\ ~session_state.last_api_fetch_was_full_page
               /\ Button("load_more_recipes") \notin shown)
    /\ [][(last_search_count = <<0>> /\ Results # <<>>
           /\ last_search_count' # <<>>)
             => /\ last_run'.search = "none"
                /\ last_search_count' = <<0>>
                /\ Button("load_more_recipes") \notin shown']_vars

\* C12 witness: the end of the pagination: an empty response at a positive
\* offset, with recipes loaded, and the list displayed again afterwards.
C12_Witness_EndOfPagination ==
    /\ ~rerun
    /\ last_search_count = <<0>>
    /\ Results # <<>>
    /\ last_run.search = "none"
    /\ session_state.current_page = "search_results"
    /\ session_state.list_type = "search"

\* C13: a run serves Load More Recipes only if the flag was true, and it
\* adds RESULTS_PER_PAGE to the offset and changes nothing else of the
\* session.
C13_LoadMoreAdvancesOnePage ==
    [][last_run'.fired = "load_more_recipes"
          => /\ session_state.last_api_fetch_was_full_page
             /\ session_state' =
                   [session_state EXCEPT
                        !.current_offset = @ + RESULTS_PER_PAGE]]_vars

\* C13 witness: Load More Recipes has been served from the first page.
C13_Witness_LoadMoreServed ==
    /\ last_run.fired = "load_more_recipes"
    /\ rerun
    /\ Offset = RESULTS_PER_PAGE

\* The primary results list is on screen and waits for the user.
PrimaryListShown ==
    /\ ~rerun
    /\ session_state.current_page = "search_results"
    /\ session_state.list_type = "search"

\* C14: a run of the primary results screen that starts with the page at
\* current_offset already loaded, and serves no button, sends no search
\* request and leaves results, offset and the flag as they were.
C14_LoadedPageIsNotFetchedAgain ==
    [][(/\ session_state.current_page = "search_results"
        /\ session_state.list_type = "search"
        /\ Offset < Len(Results)
        /\ last_run'.fired = "")
          => /\ last_run'.search = "none"
             /\ Paginator' = Paginator]_vars

\* C14 witness: the primary list has been displayed by a run that sent no
\* search request, after a return from the details screen.
C14_Witness_RedisplayedWithoutFetch ==
    /\ PrimaryListShown
    /\ last_run.fired = ""
    /\ last_run.search = "none"
    /\ Results # <<>>
    /\ session_state.last_viewed_recipe_id # None

\* C15: the page listed by the primary results screen is
\* results[offset : offset + RESULTS_PER_PAGE] at the offset the run leaves,
\* and whenever results is not empty that page is not empty and the offset
\* is below len(results).
C15_DisplayedPageIsNonEmptySlice ==
    PrimaryListShown =>
        /\ Len(last_run.batch)
              = Max(0, Min(RESULTS_PER_PAGE, Len(Results) - Offset))
        /\ \A i \in DOMAIN last_run.batch :
              last_run.batch[i] = Results[Offset + i]
        /\ Results # <<>> => (last_run.batch # <<>> /\ Offset < Len(Results))

\* C15 witness: the clamp has acted: the run requested the page at an
\* offset at or past the end of a non-empty list, received nothing and
\* listed the last RESULTS_PER_PAGE recipes.
C15_Witness_ClampedToLastPage ==
    /\ PrimaryListShown
    /\ last_run.search # "none"
    /\ last_search_count = <<0>>
    /\ Len(Results) > RESULTS_PER_PAGE
    /\ Offset = Len(Results) - RESULTS_PER_PAGE
    /\ Len(last_run.batch) = RESULTS_PER_PAGE

\* C16: right after Search Recipes has been served with a non-empty text,
\* the screen is the primary results list, the query is that text, results
\* is empty, the offset is 0, the flag is false and the page slice at
\* offset 0 is empty.
C16_SearchResetsPaginator ==
    (last_run.fired = "Search Recipes" /\ last_run.text # "")
        => /\ rerun
           /\ session_state.current_page = "search_results"
           /\ session_state.list_type = "search"
           /\ session_state.search_query = last_run.text
           /\ Paginator = << <<>>, 0, FALSE >>
           /\ page_slice(Results, Offset) = <<>>

\* C16 witness: Search Recipes has been served in a session that had
\* selected a recipe before.
C16_Witness_SearchServed ==
    /\ last_run.fired = "Search Recipes"
    /\ session_state.search_query = "soup"
    /\ session_state.selected_recipe_id # None

BackToDetailsKeys == {"back_to_details_from_similar_bottom",
                      "back_to_details_no_similar"}

\* C17: the details screen with nothing selected is never left waiting for
\* the user and is reached with the primary list kind only; the run that
\* follows changes current_page to the results screen and nothing else, so
\* that the next screen is Results(Primary).
C17_NullSelectionRecoversToPrimaryResults ==
    /\ []((/\ session_state.current_page = "recipe_details"
           /\ session_state.selected_recipe_id = None)
             => (rerun /\ session_state.list_type = "search"))
    /\ [][(/\ session_state.current_page = "recipe_details"
           /\ session_state.selected_recipe_id = None)
             => /\ session_state' = [session_state EXCEPT
                                        !.current_page = "search_results"]
                /\ session_state'.list_type = "search"
                /\ last_run'.detail = "none"]_vars

\* C17 witness: the recovery has run: a run of the details screen that sent
\* no detail request and served no button ended in st.rerun() towards the
\* results screen.
C17_Witness_Recovered ==
    /\ rerun
    /\ session_state.current_page = "search_results"
    /\ session_state.selected_recipe_id = None
    /\ last_run.fired = ""
    /\ last_run.detail = "none"

\* C18: the run that serves Back to Recipe Details leads to the details
\* screen with the primary list kind and leaves the paginator and
\* last_viewed_recipe_id as they were.
C18_BackFromSimilarKeepsPaginator ==
    [][last_run'.fired \in BackToDetailsKeys
          => /\ session_state'.current_page = "recipe_details"
             /\ session_state'.list_type = "search"
             /\ Paginator' = Paginator
             /\ session_state'.last_viewed_recipe_id
                    = session_state.last_viewed_recipe_id]_vars

\* C19: Previous Recipes is not offered at offset 0; a run serves it only
\* from a positive offset, and it sets the offset to
\* max(0, offset - RESULTS_PER_PAGE) and changes nothing else of the
\* session (results and the flag included).
C19_PreviousRetreatsOnePage ==
    /\ [](Offset = 0 => Button("previous_recipes") \notin shown)
    /\ [][last_run'.fired = "previous_recipes"
             => /\ Offset > 0
                /\ session_state' =
                      [session_state EXCEPT
                          !.current_offset =
                              Max(0, Offset - RESULTS_PER_PAGE)]]_vars

\* C19 witness: Previous Recipes has been served from the third page.
C19_Witness_PreviousServed ==
    /\ last_run.fired = "previous_recipes"
    /\ rerun
    /\ Offset = RESULTS_PER_PAGE
    /\ Len(Results) > 2 * RESULTS_PER_PAGE

\* C20: every loaded recipe stays reachable by Load More Recipes and
\* Previous Recipes without a new search.  Load More Recipes is the only
\* action that raises the offset, and the flag that offers it changes only
\* when a search is sent; so the claim requires that, whenever loaded
\* recipes lie beyond the page on screen, Load More Recipes is offered.
C20_LoadedRecipesStayReachable ==
    (PrimaryListShown /\ Offset + RESULTS_PER_PAGE < Len(Results))
        => Button("load_more_recipes") \in shown

\* C21: the round trip from the primary list to the details screen and
\* back keeps the search context: the run that serves View Details on the
\* primary list, every run of the details screen (the one that serves Back
\* to Search Results included) and the run that displays the list after
\* Back to Search Results leave the paginator as it was; Back to Search
\* Results leads to the results screen with the list kind unchanged; and the
\* display that follows sends no search request.
C21_RoundTripKeepsSearchContext ==
    /\ [][(last_run'.fired = "view" /\ session_state.list_type = "search")
             => /\ Paginator' = Paginator
                /\ session_state'.current_page = "recipe_details"
                /\ session_state'.list_type = "search"]_vars
    /\ [][session_state.current_page = "recipe_details"
             => Paginator' = Paginator]_vars
    /\ [][last_run'.fired = "back_from_details"
             => /\ session_state'.current_page = "search_results"
                /\ session_state'.list_type = session_state.list_type]_vars
    /\ [][(last_run.fired = "back_from_details"
           /\ session_state.list_type = "search")
             => /\ last_run'.search = "none"
                /\ Paginator' = Paginator
                /\ session_state'.current_page = "search_results"]_vars

\* C21 witness: Back to Search Results has been served for a recipe selected
\* on the second page of the primary list.
C21_Witness_BackServedOnSecondPage ==
    /\ rerun
    /\ last_run.fired = "back_from_details"
    /\ session_state.list_type = "search"
    /\ Offset = RESULTS_PER_PAGE
    /\ Len(Results) = 2 * RESULTS_PER_PAGE

\* C22: the run that serves Back to Recipe Details leads to the details
\* screen with the recipe the similar list was computed for selected:
\* selected_recipe_id is set and equals last_viewed_recipe_id.
C22_BackFromSimilarShowsViewedRecipe ==
    [][last_run'.fired \in BackToDetailsKeys
          => /\ session_state'.current_page = "recipe_details"
             /\ session_state'.selected_recipe_id # None
             /\ session_state'.selected_recipe_id
                    = session_state'.last_viewed_recipe_id]_vars

\* C23: the automatic runs settle.  A run started by st.rerun() ends in
\* st.rerun() again only when it is a redirect from the details screen to
\* the results screen, which serves no button; the run that follows is a run
\* of the results screen and waits for the user.  So there is no cycle of
\* automatic runs, and whenever a run is due a screen that waits for the
\* user is eventually displayed, whatever the responses.
C23_AutomaticRedirectsSettle ==
    /\ [][(rerun /\ rerun')
             => /\ session_state.current_page = "recipe_details"
                /\ session_state'.current_page = "search_results"
                /\ last_run'.fired = ""]_vars
    /\ [][(rerun /\ session_state.current_page # "recipe_details")
             => (~rerun' /\ shown' # {})]_vars
    /\ (rerun ~> (~rerun /\ shown # {}))

\* C23 witness: the chain after a failed detail request has settled: the
\* primary list waits for the user with the recipe still selected and no
\* recipe viewed yet.
C23_Witness_SettledAfterFailedDetail ==
    /\ PrimaryListShown
    /\ shown # {}
    /\ session_state.selected_recipe_id # None
    /\ session_state.last_viewed_recipe_id = None

\* C24 (earlier revision): the run that displays the results screen after
\* Load More Recipes was served on a full first page (offset
\* RESULTS_PER_PAGE with RESULTS_PER_PAGE recipes loaded) sends a search
\* request.
C24_LoadMoreFetchesNextBatch ==
    [][(/\ last_run.fired = "load_more_recipes"
        /\ Offset = RESULTS_PER_PAGE
        /\ Len(Results) = RESULTS_PER_PAGE)
          => last_run'.search # "none"]_vars

====
